---- MODULE Spec2Model ----
(***************************************************************************)
(* Model of openssl/src/ocsp.rs: the OCSP wrapper types of rust-openssl.   *)
(*                                                                         *)
(* The wrappers (verify, find_status, check_validity, create, basic,       *)
(* add_id, ...) are translated from ocsp.rs.  Each of them is a thin layer *)
(* over one libcrypto primitive of the ffi crate; a primitive is modelled  *)
(* by an operator of the same name that states what the C function does    *)
(* with the arguments the wrapper hands it, its error outcomes included.   *)
(* cvt and cvt_p are the crate's result conversions (lib.rs).              *)
(***************************************************************************)
EXTENDS Integers, Sequences, FiniteSets, TLC

(* ------------------------------------------------------------------ *)
(* Bounds of the model                                                 *)
(* ------------------------------------------------------------------ *)
MaxEntries == 2
MaxEnvs == 1
MaxBasics == 2
MaxRets == 2
MaxTime == 3
MaxSlack == 2
MaxIds == 3

(* ------------------------------------------------------------------ *)
(* Status code registries (ocsp.rs 31-65)                              *)
(* ------------------------------------------------------------------ *)
RESPONSE_STATUS_SUCCESSFUL == 0
RESPONSE_STATUS_MALFORMED_REQUEST == 1
RESPONSE_STATUS_INTERNAL_ERROR == 2
RESPONSE_STATUS_TRY_LATER == 3
RESPONSE_STATUS_SIG_REQUIRED == 5
RESPONSE_STATUS_UNAUTHORIZED == 6

CERT_STATUS_GOOD == 0
CERT_STATUS_REVOKED == 1
CERT_STATUS_UNKNOWN == 2

(* bitflags Flag: c_ulong (ocsp.rs 15-29) *)
FLAG_NO_INTERN == 2
FLAG_NO_VERIFY == 16
FLAG_TRUST_OTHER == 512

REVOKED_STATUS_NO_STATUS == -1
REVOKED_STATUS_UNSPECIFIED == 0
REVOKED_STATUS_KEY_COMPROMISE == 1
REVOKED_STATUS_CA_COMPROMISE == 2

(* struct OcspResponseStatus(c_int) and its from_raw / as_raw *)
OcspResponseStatus(raw) == [raw |-> raw]
as_raw(s) == s.raw

(* ------------------------------------------------------------------ *)
(* Values                                                              *)
(* ------------------------------------------------------------------ *)
None == [tag |-> "None"]
Some(x) == [tag |-> "Some", val |-> x]
Ok(x) == [tag |-> "Ok", val |-> x]
Err == [tag |-> "Err"]
Unit == [tag |-> "()"]
NULL == [ptr |-> "null"]

(* cvt_p: a null pointer is an error, anything else is Ok(pointer) *)
cvt_p(p) == IF p = NULL THEN Err ELSE Ok(p)

(* cvt: a result <= 0 is an error, a positive one is Ok(result) *)
cvt(r) == IF r <= 0 THEN Err ELSE Ok(r)

(* ------------------------------------------------------------------ *)
(* Inputs                                                              *)
(* ------------------------------------------------------------------ *)
CertIds == {"idA", "idB"}
StatusInputs == {RESPONSE_STATUS_SUCCESSFUL, RESPONSE_STATUS_TRY_LATER}
ReasonInputs == {REVOKED_STATUS_KEY_COMPROMISE, REVOKED_STATUS_CA_COMPROMISE}

(* A SingleResponse of a basic response: the certificate identifier, the  *)
(* certificate status, and for a revoked certificate the optional reason. *)
(* Every entry carries thisUpdate and nextUpdate: find_status turns both  *)
(* pointers into references without a null test.                          *)
SingleResponses ==
    [certId : CertIds, certStatus : {CERT_STATUS_GOOD}, revocationReason : {None}]
    \cup [certId : CertIds, certStatus : {CERT_STATUS_REVOKED},
          revocationReason : {None} \cup {Some(r) : r \in ReasonInputs}]

RECURSIVE SeqsUpTo(_, _)
SeqsUpTo(S, n) ==
    IF n = 0 THEN {<<>>}
    ELSE LET shorter == SeqsUpTo(S, n - 1)
         IN shorter \cup {Append(q, x) : q \in {t \in shorter : Len(t) = n - 1}, x \in S}

Wires == SeqsUpTo(SingleResponses, MaxEntries)

(* The body every envelope of the envelope specification carries: two     *)
(* entries for idA (a duplicate) and none for idB.                         *)
SampleWire ==
    SubSeq(<<[certId |-> "idA", certStatus |-> CERT_STATUS_REVOKED,
              revocationReason |-> Some(REVOKED_STATUS_CA_COMPROMISE)],
             [certId |-> "idA", certStatus |-> CERT_STATUS_GOOD,
              revocationReason |-> None]>>, 1, 2)

EnvIds == 1..MaxEnvs
BasicIds == 1..MaxBasics
RetIds == 1..MaxRets

VARIABLES
    wire,       \* the status entries of the DER bodies the responder sends
    envs,       \* OcspResponse handles: slot -> NoEnv or the OCSP_RESPONSE
    basics,     \* OcspBasicResponse objects: slot -> state of the object
    rets,       \* Option<Status<'a>> values held by the caller
    lastBasic,  \* the last basic() call: its receiver and what it returned
    now,        \* the wall clock the validity primitive reads, in seconds
    cv,         \* the last check_validity call: arguments and result
    pki,        \* what holds of the response under verification
    vr,         \* the last verify call: arguments and result
    ids,        \* OcspCertId objects: slot -> state of the object
    request,    \* the OcspRequest: its entries, in order
    added,      \* the identifiers add_id returned Ok for, in call order
    lastAdd     \* the last add_id call: arguments and result

respVars == <<wire, envs, basics, rets, lastBasic>>
valVars == <<now, cv>>
verVars == <<pki, vr>>
reqVars == <<ids, request, added, lastAdd>>

vars == <<respVars, valVars, verVars, reqVars>>

NoEnv == [st |-> "none"]
NoBasic == [obj |-> "unalloc"]
FreedBasic == [obj |-> "freed", held |-> FALSE]
DanglingBasic == [obj |-> "freed", held |-> TRUE]
NoRet == [st |-> "empty"]
NoCall == [called |-> FALSE]

(* ------------------------------------------------------------------ *)
(* Response envelope (ocsp.rs 207-246)                                 *)
(* ------------------------------------------------------------------ *)

(* ffi::OCSP_response_create: a new OCSP_RESPONSE with responseStatus set *)
(* to status and, when bs is not null, responseBytes holding the packed   *)
(* body; status and bs are not compared.  NULL when allocation fails.     *)
OCSP_response_create(status, bs, mem) ==
    IF ~mem THEN NULL
    ELSE [ptr |-> "OCSP_RESPONSE",
          responseStatus |-> status,
          responseBytes |-> IF bs = NULL THEN NULL
                            ELSE [ptr |-> "OCSP_RESPBYTES", response |-> bs.entries]]

(* OcspResponse::create that hands the body over only with a successful status *)
create_body_only_if_successful(status, body, mem) ==
    cvt_p(OCSP_response_create(as_raw(status),
                               IF body = None \/ as_raw(status) # RESPONSE_STATUS_SUCCESSFUL
                               THEN NULL ELSE body.val,
                               mem))

(* OcspResponse::create(status, body) *)
create(status, body, mem) ==
    cvt_p(OCSP_response_create(as_raw(status),
                               IF body = None THEN NULL ELSE body.val,
                               mem))

(* ffi::OCSP_response_status *)
OCSP_response_status(resp) == resp.responseStatus

(* OcspResponseRef::status *)
status(resp) == OcspResponseStatus(OCSP_response_status(resp))

(* ffi::OCSP_response_get1_basic: NULL when the response has no           *)
(* responseBytes or they do not decode; otherwise a newly allocated       *)
(* OCSP_BASICRESP the caller owns.  responseStatus is not read.           *)
OCSP_response_get1_basic(resp, decodes) ==
    IF resp.responseBytes = NULL THEN NULL
    ELSE IF ~decodes THEN NULL
    ELSE [ptr |-> "OCSP_BASICRESP", entries |-> resp.responseBytes.response,
          owned |-> TRUE]

(* OcspResponseRef::basic *)
basic(resp, decodes) == cvt_p(OCSP_response_get1_basic(resp, decodes))

FreeEnvSlots == {e \in EnvIds : envs[e] = NoEnv}
LiveEnvs == {e \in EnvIds : envs[e] # NoEnv}
FreeBasicSlots == {b \in BasicIds : basics[b] = NoBasic}
LiveBasics == {b \in BasicIds : basics[b].obj = "live"}
FreeRetSlots == {r \in RetIds : rets[r] = NoRet}
HeldRets == {r \in RetIds : rets[r] # NoRet}

(* from_der!(OcspResponse, d2i_OCSP_RESPONSE): whatever the responder     *)
(* sent: any status, with or without a body.                              *)
FromDer(e, s, hasBody) ==
    /\ e \in FreeEnvSlots
    /\ \A c \in FreeEnvSlots : e <= c
    /\ envs' = [envs EXCEPT ![e] =
                  [st |-> "live", origin |-> "from_der",
                   argStatus |-> s, argBody |-> hasBody,
                   resp |-> [ptr |-> "OCSP_RESPONSE", responseStatus |-> s,
                             responseBytes |->
                                 IF hasBody
                                 THEN [ptr |-> "OCSP_RESPBYTES", response |-> wire]
                                 ELSE NULL]]]
    /\ UNCHANGED <<wire, basics, rets, lastBasic>>
    /\ UNCHANGED <<valVars, verVars, reqVars>>

(* A call of OcspResponse::create; body is None or Some(&b) of a live b. *)
Create(e, s, body, mem) ==
    /\ e \in FreeEnvSlots
    /\ \A c \in FreeEnvSlots : e <= c
    /\ LET r == create(OcspResponseStatus(s),
                       IF body = None THEN None ELSE Some(basics[body.val]),
                       mem)
       IN IF r.tag = "Ok"
          THEN envs' = [envs EXCEPT ![e] =
                          [st |-> "live", origin |-> "create",
                           argStatus |-> s, argBody |-> (body # None),
                           resp |-> r.val]]
          ELSE UNCHANGED envs
    /\ UNCHANGED <<wire, basics, rets, lastBasic>>
    /\ UNCHANGED <<valVars, verVars, reqVars>>

(* A call of basic() on envelope e; an Ok result is a new owned handle.  *)
Basic(e, b, decodes) ==
    /\ e \in LiveEnvs
    /\ b \in FreeBasicSlots
    /\ \A c \in FreeBasicSlots : b <= c
    /\ LET r == basic(envs[e].resp, decodes)
       IN /\ lastBasic' = [called |-> TRUE,
                           status |-> as_raw(status(envs[e].resp)),
                           hasBody |-> envs[e].resp.responseBytes # NULL,
                           ok |-> r.tag = "Ok"]
          /\ IF r.tag = "Ok"
             THEN basics' = [basics EXCEPT ![b] =
                               [obj |-> "live", held |-> TRUE,
                                entries |-> r.val.entries,
                                aliasOf |-> IF r.val.owned THEN 0 ELSE e]]
             ELSE UNCHANGED basics
    /\ UNCHANGED <<wire, envs, rets>>
    /\ UNCHANGED <<valVars, verVars, reqVars>>

(* Drop of an OcspResponse: OCSP_RESPONSE_free (type_! at 207).  It frees *)
(* the envelope and whatever the envelope still owns.                     *)
DropEnv(e) ==
    /\ e \in LiveEnvs
    /\ envs' = [envs EXCEPT ![e] = NoEnv]
    /\ basics' = [b \in BasicIds |->
                    IF basics[b].obj = "live" /\ basics[b].aliasOf = e
                    THEN DanglingBasic ELSE basics[b]]
    /\ UNCHANGED <<wire, rets, lastBasic>>
    /\ UNCHANGED <<valVars, verVars, reqVars>>

(* ------------------------------------------------------------------ *)
(* Basic response: status lookup (ocsp.rs 106-117, 156-189)            *)
(* ------------------------------------------------------------------ *)

(* A pointer into SingleResponse number k (from 0) of basic response b. *)
TimePtr(b, k, f) == [ptr |-> "ASN1_GENERALIZEDTIME", resp |-> b, single |-> k, field |-> f]

(* ffi::OCSP_resp_find, as OCSP_resp_find_status calls it (last = -1):  *)
(* the index of the first SingleResponse after last whose certId equals *)
(* id, -1 when there is none.                                           *)
RECURSIVE OCSP_resp_find(_, _, _)
OCSP_resp_find(entries, id, last) ==
    IF last + 1 >= Len(entries) THEN -1
    ELSE IF entries[last + 2].certId = id THEN last + 1
    ELSE OCSP_resp_find(entries, id, last + 1)

(* ffi::OCSP_single_get0_status: returns the certificate status; writes *)
(* reason and revtime only for a revoked certificate (reason -1 when    *)
(* the entry carries none), thisupd and nextupd always.                 *)
OCSP_single_get0_status(b, entries, k, out) ==
    LET single == entries[k + 1]
        revoked == single.certStatus = CERT_STATUS_REVOKED
    IN [r |-> 1,
        status |-> single.certStatus,
        reason |-> IF revoked
                   THEN (IF single.revocationReason = None THEN -1
                         ELSE single.revocationReason.val)
                   ELSE out.reason,
        revocation_time |-> IF revoked THEN TimePtr(b, k, "revocationTime")
                            ELSE out.revocation_time,
        this_update |-> TimePtr(b, k, "thisUpdate"),
        next_update |-> TimePtr(b, k, "nextUpdate")]

(* ffi::OCSP_resp_find_status: 0 and the outputs untouched when no entry *)
(* matches, else 1 and the outputs of the first matching entry.          *)
OCSP_resp_find_status(b, entries, id, out) ==
    LET i == OCSP_resp_find(entries, id, -1)
    IN IF i < 0 THEN [out EXCEPT !.r = 0]
       ELSE OCSP_single_get0_status(b, entries, i, out)

(* OcspBasicResponseRef::find_status, unmatched result turned into Some *)
find_status_always_some(b, entries, id) ==
    LET out == OCSP_resp_find_status(b, entries, id,
                   [r |-> 0, status |-> CERT_STATUS_UNKNOWN,
                    reason |-> REVOKED_STATUS_NO_STATUS,
                    revocation_time |-> NULL, this_update |-> NULL,
                    next_update |-> NULL])
    IN Some([status |-> out.status,
             reason |-> out.status,
             revocation_time |-> IF out.revocation_time = NULL THEN None
                                 ELSE Some(out.revocation_time),
             this_update |-> out.this_update,
             next_update |-> out.next_update])

(* OcspBasicResponseRef::find_status *)
find_status(b, entries, id) ==
    LET out == OCSP_resp_find_status(b, entries, id,
                   [r |-> 0, status |-> CERT_STATUS_UNKNOWN,
                    reason |-> REVOKED_STATUS_NO_STATUS,
                    revocation_time |-> NULL, this_update |-> NULL,
                    next_update |-> NULL])
    IN IF out.r = 1
       THEN Some([status |-> out.status,
                  reason |-> out.status,
                  revocation_time |-> IF out.revocation_time = NULL THEN None
                                      ELSE Some(out.revocation_time),
                  this_update |-> out.this_update,
                  next_update |-> out.next_update])
       ELSE None

(* find_status whose result is not tied to the lifetime of self *)
Unborrowed(b) == {}

(* The response a value returned by find_status(&'a self, ..) borrows:  *)
(* Option<Status<'a>> keeps self borrowed for as long as it is held.    *)
Borrowed(b) == {b}

(* The basic responses some held Option<Status<'a>> still borrows. *)
BorrowedBasics == UNION {Borrowed(rets[r].resp) : r \in HeldRets}

(* A call of find_status on the live basic response b; the caller keeps *)
(* the returned value in slot r.                                        *)
FindStatus(b, id, r) ==
    /\ b \in LiveBasics
    /\ r \in FreeRetSlots
    /\ \A c \in FreeRetSlots : r <= c
    /\ rets' = [rets EXCEPT ![r] =
                  [st |-> "held", resp |-> b, id |-> id,
                   ret |-> find_status(b, basics[b].entries, id)]]
    /\ UNCHANGED <<wire, envs, basics, lastBasic>>
    /\ UNCHANGED <<valVars, verVars, reqVars>>

(* The caller lets go of a value find_status returned. *)
DropRet(r) ==
    /\ r \in HeldRets
    /\ rets' = [rets EXCEPT ![r] = NoRet]
    /\ UNCHANGED <<wire, envs, basics, lastBasic>>
    /\ UNCHANGED <<valVars, verVars, reqVars>>

(* Drop of an OcspBasicResponse: OCSP_BASICRESP_free (type_! at 138).   *)
(* The borrow checker accepts it only once no Status<'a> borrows it.    *)
DropBasic(b) ==
    /\ b \in BasicIds
    /\ basics[b] # NoBasic
    /\ basics[b].held
    /\ b \notin BorrowedBasics
    /\ basics' = [basics EXCEPT ![b] = FreedBasic]
    /\ UNCHANGED <<wire, envs, rets, lastBasic>>
    /\ UNCHANGED <<valVars, verVars, reqVars>>

(* ------------------------------------------------------------------ *)
(* Specification of the envelope and basic-response handles            *)
(* ------------------------------------------------------------------ *)
IdleVal == now = 0 /\ cv = NoCall
IdleVer == pki = [signerInCerts |-> FALSE, signerEmbedded |-> FALSE,
                  sigOK |-> FALSE, chainOK |-> FALSE] /\ vr = NoCall
IdleReq == ids = <<>> /\ request = [st |-> "none"] /\ added = <<>> /\ lastAdd = NoCall
IdleResp ==
    /\ wire = <<>>
    /\ envs = [e \in EnvIds |-> NoEnv]
    /\ basics = [b \in BasicIds |-> NoBasic]
    /\ rets = [r \in RetIds |-> NoRet]
    /\ lastBasic = NoCall

InitResp ==
    /\ IdleVal /\ IdleVer /\ IdleReq
    /\ wire = SampleWire
    /\ envs = [e \in EnvIds |-> NoEnv]
    /\ basics = [b \in BasicIds |-> NoBasic]
    /\ rets = [r \in RetIds |-> NoRet]
    /\ lastBasic = NoCall

NextResp ==
    \/ \E e \in EnvIds, s \in StatusInputs, hasBody \in BOOLEAN : FromDer(e, s, hasBody)
    \/ \E e \in EnvIds, s \in StatusInputs, mem \in BOOLEAN,
          body \in {None} \cup {Some(b) : b \in LiveBasics} : Create(e, s, body, mem)
    \/ \E e \in EnvIds, b \in BasicIds, decodes \in BOOLEAN : Basic(e, b, decodes)
    \/ \E e \in EnvIds : DropEnv(e)
    \/ \E b \in BasicIds : DropBasic(b)
    \/ \E b \in BasicIds, id \in CertIds, r \in RetIds : FindStatus(b, id, r)
    \/ \E r \in RetIds : DropRet(r)

SpecResp == InitResp /\ [][NextResp]_vars

(* ------------------------------------------------------------------ *)
(* Specification of the lookup: one basic response, any entries        *)
(* ------------------------------------------------------------------ *)
InitLookup ==
    /\ IdleVal /\ IdleVer /\ IdleReq
    /\ wire \in Wires
    /\ envs = [e \in EnvIds |-> NoEnv]
    /\ basics = [b \in BasicIds |->
                    IF b = 1 THEN [obj |-> "live", held |-> TRUE, entries |-> wire,
                                   aliasOf |-> 0]
                    ELSE NoBasic]
    /\ rets = [r \in RetIds |-> NoRet]
    /\ lastBasic = [called |-> TRUE, status |-> RESPONSE_STATUS_SUCCESSFUL,
                    hasBody |-> TRUE, ok |-> TRUE]

NextLookup ==
    \/ \E b \in BasicIds, id \in CertIds, r \in RetIds : FindStatus(b, id, r)
    \/ \E r \in RetIds : DropRet(r)
    \/ \E b \in BasicIds : DropBasic(b)

SpecLookup == InitLookup /\ [][NextLookup]_vars

(* ------------------------------------------------------------------ *)
(* Validity check (ocsp.rs 119-136)                                    *)
(* ------------------------------------------------------------------ *)

(* Integers wider than TLC's are kept as two limbs: the value          *)
(* of W(hi, lo) is hi * 2^16 + lo with 0 <= lo < 2^16.  A u32 has       *)
(* 0 <= hi < 2^16.                                                      *)
Limb == 2^16
W(hi, lo) == [hi |-> hi, lo |-> lo]
WInt(n) == W(n \div Limb, n % Limb)
WAdd(a, b) == W(a.hi + b.hi + ((a.lo + b.lo) \div Limb), (a.lo + b.lo) % Limb)
WNeg(a) == IF a.lo = 0 THEN W(0 - a.hi, 0) ELSE W(0 - a.hi - 1, Limb - a.lo)
WSub(a, b) == WAdd(a, WNeg(b))
WLess(a, b) == a.hi < b.hi \/ (a.hi = b.hi /\ a.lo < b.lo)

CLongWidths == {32, 64}
U32_MAX == W(Limb - 1, Limb - 1)
U32Inputs ==
    {WInt(n) : n \in 0..MaxSlack}
    \cup {W(2^15 - 1, Limb - 1), W(2^15, 0), U32_MAX}
TimeInputs == 0..MaxTime

(* `n as c_long` for a u32 n: the same 32 bits read as a signed value   *)
(* when c_long has 32 bits, the zero-extended value when it has 64.     *)
as_c_long(n, bits) ==
    IF bits = 32 /\ n.hi >= 2^15 THEN W(n.hi - Limb, n.lo) ELSE n

(* The slack and maximum age check_validity hands to the primitive:     *)
(* nsec as c_long, maxsec.map(|n| n as c_long).unwrap_or(-1).           *)
check_validity_args(nsec, maxsec, bits) ==
    [nsec |-> as_c_long(nsec, bits),
     maxsec |-> IF maxsec = None THEN WInt(-1) ELSE as_c_long(maxsec.val, bits)]

(* X509_cmp_time, as the validity primitive uses it on well-formed      *)
(* times: 1 when ctm is later than cmp_time, -1 when it is earlier or   *)
(* equal.                                                               *)
X509_cmp_time(ctm, cmp_time) == IF WLess(cmp_time, WInt(ctm)) THEN 1 ELSE -1

(* ffi::OCSP_check_validity on well-formed thisupd and nextupd: 0 when  *)
(* thisupd is more than nsec in the future, when maxsec >= 0 and        *)
(* thisupd is not later than t_now - maxsec, when nextupd is not later  *)
(* than t_now - nsec, or when nextupd precedes thisupd; 1 otherwise.    *)
OCSP_check_validity(thisupd, nextupd, nsec, maxsec, t_now) ==
    LET not_yet_valid == X509_cmp_time(thisupd, WAdd(WInt(t_now), nsec)) > 0
        too_old == /\ ~WLess(maxsec, WInt(0))
                   /\ X509_cmp_time(thisupd, WSub(WInt(t_now), maxsec)) < 0
        expired == X509_cmp_time(nextupd, WSub(WInt(t_now), nsec)) < 0
        next_before_this == nextupd < thisupd
    IN IF not_yet_valid \/ too_old \/ expired \/ next_before_this THEN 0 ELSE 1

(* Status::check_validity with maxsec.unwrap_or(0) *)
check_validity_none_is_zero(self, nsec, maxsec, bits, t_now) ==
    LET a == check_validity_args(nsec, maxsec, bits)
        r == cvt(OCSP_check_validity(self.this_update, self.next_update, a.nsec,
                                     IF maxsec = None THEN WInt(0) ELSE a.maxsec,
                                     t_now))
    IN IF r.tag = "Ok" THEN Ok(Unit) ELSE r

(* Status::check_validity *)
check_validity(self, nsec, maxsec, bits, t_now) ==
    LET a == check_validity_args(nsec, maxsec, bits)
        r == cvt(OCSP_check_validity(self.this_update, self.next_update,
                                     a.nsec, a.maxsec, t_now))
    IN IF r.tag = "Ok" THEN Ok(Unit) ELSE r

(* A call of check_validity on the record under check. *)
CheckValidity(nsec, maxsec) ==
    /\ cv' = [called |-> TRUE, c_long_bits |-> cv.c_long_bits,
              this_update |-> cv.this_update, next_update |-> cv.next_update,
              nsec |-> nsec, maxsec |-> maxsec, now |-> now,
              args |-> check_validity_args(nsec, maxsec, cv.c_long_bits),
              result |-> check_validity([this_update |-> cv.this_update,
                                         next_update |-> cv.next_update],
                                        nsec, maxsec, cv.c_long_bits, now)]
    /\ UNCHANGED <<now, respVars, verVars, reqVars>>

(* A second passes. *)
Tick ==
    /\ now < MaxTime
    /\ now' = now + 1
    /\ UNCHANGED <<cv, respVars, verVars, reqVars>>

(* A Status record with any two times, on a build with either c_long. *)
InitValidity ==
    /\ IdleResp /\ IdleVer /\ IdleReq
    /\ now = 0
    /\ cv \in [called : {FALSE}, c_long_bits : CLongWidths,
               this_update : TimeInputs, next_update : TimeInputs]

NextValidity ==
    \/ \E nsec \in U32Inputs, maxsec \in {None} \cup {Some(n) : n \in U32Inputs} :
          CheckValidity(nsec, maxsec)
    \/ Tick

SpecValidity == InitValidity /\ [][NextValidity]_vars

(* The calls whose nsec and maxsec are in the bounded range 0..MaxSlack. *)
SmallCall ==
    /\ cv.called
    /\ cv.nsec.hi = 0
    /\ cv.maxsec # None => cv.maxsec.val.hi = 0

C10_ArgsKeepTheirValue ==
    cv.called =>
        /\ cv.args.nsec = cv.nsec
        /\ cv.maxsec = None => cv.args.maxsec = WInt(-1)
        /\ cv.maxsec # None =>
              /\ cv.args.maxsec = cv.maxsec.val
              /\ ~WLess(cv.args.maxsec, WInt(0))

(* ------------------------------------------------------------------ *)
(* Basic response: trust verification (ocsp.rs 140-154)                *)
(* ------------------------------------------------------------------ *)

(* Flag values: every union of the three flags the model exercises. *)
FlagInputs ==
    {[bits |-> a + b + c] : a \in {0, FLAG_NO_INTERN}, b \in {0, FLAG_NO_VERIFY},
                            c \in {0, FLAG_TRUST_OTHER}}

(* Flag::bits *)
bits(flags) == flags.bits

(* Flag::contains, on the raw c_ulong *)
HasFlag(raw, flag) == (raw \div flag) % 2 = 1

(* Where the primitive finds the signer: in certs first, then in the  *)
(* certificates embedded in the response unless NOINTERN is set.      *)
SignerFound(p, raw) ==
    p.signerInCerts \/ (p.signerEmbedded /\ ~HasFlag(raw, FLAG_NO_INTERN))

(* The chain check is skipped with NOVERIFY, and with TRUSTOTHER for a *)
(* signer found in certs.                                              *)
ChainCheckSuppressed(p, raw) ==
    HasFlag(raw, FLAG_NO_VERIFY) \/ (HasFlag(raw, FLAG_TRUST_OTHER) /\ p.signerInCerts)

(* ffi::OCSP_basic_verify: -1 on a fatal error, 0 when the signer is   *)
(* not found, the signature does not verify or the chain check (when   *)
(* not suppressed) fails, 1 on success.                                *)
OCSP_basic_verify(p, raw, fatal) ==
    IF fatal THEN -1
    ELSE IF ~SignerFound(p, raw) THEN 0
    ELSE IF ~p.sigOK THEN 0
    ELSE IF ~ChainCheckSuppressed(p, raw) /\ ~p.chainOK THEN 0
    ELSE 1

(* OcspBasicResponseRef::verify that takes only 0 for a failure *)
verify_only_zero_fails(p, flags, fatal) ==
    IF OCSP_basic_verify(p, bits(flags), fatal) = 0 THEN Err ELSE Ok(Unit)

(* OcspBasicResponseRef::verify; p stands for self, certs and store *)
verify(p, flags, fatal) ==
    LET r == cvt(OCSP_basic_verify(p, bits(flags), fatal))
    IN IF r.tag = "Ok" THEN Ok(Unit) ELSE r

(* A call of verify. *)
Verify(flags, fatal) ==
    /\ vr' = [called |-> TRUE, flags |-> flags,
              passed |-> bits(flags),
              primitive |-> OCSP_basic_verify(pki, bits(flags), fatal),
              result |-> verify(pki, flags, fatal)]
    /\ UNCHANGED <<pki, respVars, valVars, reqVars>>

(* A response whose signer may be in certs, embedded, both or neither, *)
(* with a good or bad signature and a trusted or untrusted chain.      *)
InitVerify ==
    /\ IdleResp /\ IdleVal /\ IdleReq
    /\ pki \in [signerInCerts : BOOLEAN, signerEmbedded : BOOLEAN,
                sigOK : BOOLEAN, chainOK : BOOLEAN]
    /\ vr = NoCall

NextVerify == \E flags \in FlagInputs, fatal \in BOOLEAN : Verify(flags, fatal)

SpecVerify == InitVerify /\ [][NextVerify]_vars

(* C1: verify returns Ok only when the primitive reported success, the *)
(* signature holds and, unless the flags suppress the check, the chain *)
(* is trusted; every zero or negative outcome of the primitive is an   *)
(* error, and the primitive saw the flags verify was given.            *)
C1_VerifyOkOnlyOnSuccess ==
    vr.called =>
        /\ vr.passed = vr.flags.bits
        /\ vr.primitive <= 0 => vr.result = Err
        /\ vr.result = Ok(Unit) =>
              /\ vr.primitive = 1
              /\ pki.sigOK
              /\ pki.chainOK \/ ChainCheckSuppressed(pki, vr.flags.bits)

(* A fatal error of the primitive on a response that would verify. *)
C1_Witness ==
    /\ vr.called
    /\ vr.primitive < 0
    /\ vr.result = Err
    /\ pki.sigOK /\ pki.chainOK /\ pki.signerInCerts

(* ------------------------------------------------------------------ *)
(* Certificate identifier and request (ocsp.rs 192-205, 248-274)       *)
(* ------------------------------------------------------------------ *)
Digests == {"sha1"}
Subjects == {"certA", "certB"}
Issuers == {"ca"}

(* ffi::OCSP_cert_to_id: the identifier of subject under issuer and    *)
(* digest (hash algorithm, issuer hashes, serial), NULL on failure.    *)
OCSP_cert_to_id(digest, subject, issuer, ok) ==
    IF ~ok THEN NULL
    ELSE [ptr |-> "OCSP_CERTID", hashAlgorithm |-> digest,
          issuerHash |-> <<digest, issuer>>, serialNumber |-> subject]

(* OcspCertId::from_cert *)
from_cert(digest, subject, issuer, ok) ==
    cvt_p(OCSP_cert_to_id(digest, subject, issuer, ok))

(* ffi::OCSP_REQUEST_new: an empty request, NULL when out of memory *)
OCSP_REQUEST_new(mem) ==
    IF mem THEN [ptr |-> "OCSP_REQUEST", requestList |-> <<>>] ELSE NULL

(* OcspRequest::new *)
OcspRequest_new(mem) == cvt_p(OCSP_REQUEST_new(mem))

(* A pointer to the OCSP_ONEREQ at position k (from 0) of the request. *)
OneReqPtr(k) == [ptr |-> "OCSP_ONEREQ", index |-> k]

(* ffi::OCSP_request_add0_id: pushes a new OCSP_ONEREQ holding cid at   *)
(* the end of the request list and returns it; on failure returns NULL, *)
(* leaves the list as it was and does not take cid.                     *)
OCSP_request_add0_id(list, cid, mem) ==
    IF mem
    THEN [one |-> OneReqPtr(Len(list)), list |-> Append(list, [reqCert |-> cid])]
    ELSE [one |-> NULL, list |-> list]

(* OcspRequestRef::add_id without the try! on the primitive's result *)
add_id_unchecked(list, id, mem) ==
    LET p == OCSP_request_add0_id(list, id, mem)
    IN [result |-> Ok(p.one), list |-> p.list, dropped |-> FALSE]

(* OcspRequestRef::add_id without mem::forget(id) *)
add_id_without_forget(list, id, mem) ==
    LET p == OCSP_request_add0_id(list, id, mem)
        r == cvt_p(p.one)
    IN [result |-> r, list |-> p.list, dropped |-> TRUE]

(* OcspRequestRef::add_id: the result, the request list afterwards and  *)
(* whether id was dropped (on the error return of try!) or forgotten.   *)
add_id(list, id, mem) ==
    LET p == OCSP_request_add0_id(list, id, mem)
        r == cvt_p(p.one)
    IN IF r.tag = "Err"
       THEN [result |-> Err, list |-> p.list, dropped |-> TRUE]
       ELSE [result |-> Ok(r.val), list |-> p.list, dropped |-> FALSE]

IdSlots == 1..Len(ids)
OwnedIds == {i \in IdSlots : ids[i].handle}
Released(S) == [i \in IdSlots |-> IF i \in S THEN [ids[i] EXCEPT !.frees = @ + 1]
                                  ELSE ids[i]]

(* A call of OcspCertId::from_cert; an Ok result is a new owned handle. *)
FromCert(digest, subject, issuer, ok) ==
    /\ Len(ids) < MaxIds
    /\ LET r == from_cert(digest, subject, issuer, ok)
       IN IF r.tag = "Ok"
          THEN ids' = Append(ids, [val |-> r.val, handle |-> TRUE, frees |-> 0])
          ELSE UNCHANGED ids
    /\ UNCHANGED <<request, added, lastAdd, respVars, valVars, verVars>>

(* A call of OcspRequest::new. *)
NewRequest(mem) ==
    /\ request.st = "none"
    /\ LET r == OcspRequest_new(mem)
       IN IF r.tag = "Ok"
          THEN request' = [st |-> "live", list |-> r.val.requestList]
          ELSE UNCHANGED request
    /\ UNCHANGED <<ids, added, lastAdd, respVars, valVars, verVars>>

(* A call of add_id with the owned identifier i, moved into the call. *)
AddId(i, mem) ==
    /\ request.st = "live"
    /\ i \in OwnedIds
    /\ LET a == add_id(request.list, i, mem)
       IN /\ request' = [request EXCEPT !.list = a.list]
          /\ ids' = [Released(IF a.dropped THEN {i} ELSE {}) EXCEPT ![i].handle = FALSE]
          /\ added' = IF a.result.tag = "Ok" THEN Append(added, ids[i].val) ELSE added
          /\ lastAdd' = [called |-> TRUE, ok |-> a.result.tag = "Ok", id |-> i,
                         one |-> IF a.result.tag = "Ok" THEN a.result.val ELSE NULL,
                         before |-> request.list, after |-> a.list]
    /\ UNCHANGED <<respVars, valVars, verVars>>

(* Drop of an OcspCertId the caller still owns: OCSP_CERTID_free. *)
DropId(i) ==
    /\ i \in OwnedIds
    /\ ids' = [Released({i}) EXCEPT ![i].handle = FALSE]
    /\ UNCHANGED <<request, added, lastAdd, respVars, valVars, verVars>>

(* Drop of the OcspRequest: OCSP_REQUEST_free frees every entry and the *)
(* identifier it holds.                                                 *)
DropRequest ==
    /\ request.st = "live"
    /\ request' = [request EXCEPT !.st = "freed"]
    /\ ids' = Released({request.list[k].reqCert : k \in 1..Len(request.list)})
    /\ UNCHANGED <<added, lastAdd, respVars, valVars, verVars>>

InitReq ==
    /\ IdleResp /\ IdleVal /\ IdleVer
    /\ ids = <<>>
    /\ request = [st |-> "none"]
    /\ added = <<>>
    /\ lastAdd = NoCall

NextReq ==
    \/ \E d \in Digests, sub \in Subjects, iss \in Issuers, ok \in BOOLEAN :
          FromCert(d, sub, iss, ok)
    \/ \E mem \in BOOLEAN : NewRequest(mem)
    \/ \E i \in 1..MaxIds, mem \in BOOLEAN : AddId(i, mem)
    \/ \E i \in 1..MaxIds : DropId(i)
    \/ DropRequest

SpecReq == InitReq /\ [][NextReq]_vars

HasList == request.st \in {"live", "freed"}
EntryVals(list) == [k \in 1..Len(list) |-> ids[list[k].reqCert].val]
InRequest(i) ==
    Cardinality({k \in 1..(IF request.st = "live" THEN Len(request.list) ELSE 0) :
                     request.list[k].reqCert = i})

(* C7: the entries of a request that started empty are the identifiers *)
(* add_id returned Ok for, in call order; a successful call appends one *)
(* entry for its identifier at the end and leaves the earlier entries,  *)
(* and the reference it returns is to the appended entry.               *)
C7_EntriesAreAddedIdsInOrder ==
    /\ HasList => EntryVals(request.list) = added
    /\ (lastAdd.called /\ lastAdd.ok) =>
          /\ lastAdd.after = Append(lastAdd.before, [reqCert |-> lastAdd.id])
          /\ lastAdd.one = OneReqPtr(Len(lastAdd.after) - 1)
          /\ SubSeq(request.list, 1, Len(lastAdd.after)) = lastAdd.after

(* Three entries, two of them for equal identifiers. *)
C7_Witness ==
    /\ request.st = "live"
    /\ Len(request.list) >= 3
    /\ \E j, k \in 1..Len(added) : j < k /\ added[j] = added[k]
    /\ \E j, k \in 1..Len(added) : added[j] # added[k]

CreatedEnvs == {e \in LiveEnvs : envs[e].origin = "create"}
HasBody(resp) == resp.responseBytes # NULL

(* C2: basic() fails whenever status() is not Successful or no body is   *)
(* present, and succeeds only for a Successful status with a body, for   *)
(* every envelope, one built by create with a non-successful status and  *)
(* a body included.                                                      *)
C2_BasicNeedsSuccessfulStatusAndBody ==
    lastBasic.called =>
        (lastBasic.ok =>
            lastBasic.status = RESPONSE_STATUS_SUCCESSFUL /\ lastBasic.hasBody)

(* C6 as stated: every envelope create returned holds a body if and only *)
(* if its status is Successful.                                          *)
C6_CouplingEnforcedByCreate ==
    \A e \in CreatedEnvs :
        HasBody(envs[e].resp) <=>
            as_raw(status(envs[e].resp)) = RESPONSE_STATUS_SUCCESSFUL

(* C6 as amended: every envelope create returned carries the status it   *)
(* was given and holds a body if and only if a body was passed, whatever *)
(* the status; the body it holds is the one passed.                      *)
C6_CreateStoresWhatItIsGiven ==
    \A e \in CreatedEnvs :
        /\ as_raw(status(envs[e].resp)) = envs[e].argStatus
        /\ HasBody(envs[e].resp) <=> envs[e].argBody
        /\ HasBody(envs[e].resp) => envs[e].resp.responseBytes.response = wire

(* An envelope create returned with a non-successful status and a body. *)
C6_Witness ==
    \E e \in CreatedEnvs :
        /\ as_raw(status(envs[e].resp)) # RESPONSE_STATUS_SUCCESSFUL
        /\ HasBody(envs[e].resp)

(* ------------------------------------------------------------------ *)
(* Properties of the lookup                                            *)
(* ------------------------------------------------------------------ *)
Matches(entries, id) == {k \in 0..(Len(entries) - 1) : entries[k + 1].certId = id}
First(M) == CHOOSE k \in M : \A j \in M : k <= j

(* The revocation reason a SingleResponse carries: its revocationReason *)
(* when it is revoked and has one, NoStatus otherwise.                  *)
EntryReason(single) ==
    IF single.certStatus = CERT_STATUS_REVOKED /\ single.revocationReason # None
    THEN single.revocationReason.val
    ELSE REVOKED_STATUS_NO_STATUS

FoundRets == {r \in HeldRets : rets[r].ret # None}

(* C3: the reason of every record find_status returned is the revocation *)
(* reason of the matched entry (NoStatus when it carries none), not the  *)
(* certificate status code.                                              *)
C3_ReasonIsEntryReason ==
    \A r \in FoundRets :
        LET rec == rets[r].ret.val
            single == basics[rets[r].resp].entries[rec.this_update.single + 1]
        IN rec.reason = EntryReason(single)

(* C4: find_status(id) returns None exactly when no entry has identifier *)
(* id, and otherwise a record built from the first such entry in entry   *)
(* order; calls with the same identifier on the same response agree, and *)
(* the response keeps its entries.                                       *)
C4_FirstMatchWins ==
    \A r \in HeldRets :
        LET v == rets[r]
            entries == basics[v.resp].entries
            M == Matches(entries, v.id)
        IN /\ entries = wire
           /\ (M = {}) <=> (v.ret = None)
           /\ M # {} =>
                 LET k == First(M)
                     revoked == entries[k + 1].certStatus = CERT_STATUS_REVOKED
                 IN /\ v.ret.tag = "Some"
                    /\ v.ret.val.status = entries[k + 1].certStatus
                    /\ v.ret.val.this_update = TimePtr(v.resp, k, "thisUpdate")
                    /\ v.ret.val.next_update = TimePtr(v.resp, k, "nextUpdate")
                    /\ v.ret.val.revocation_time =
                           IF revoked THEN Some(TimePtr(v.resp, k, "revocationTime"))
                           ELSE None
           /\ \A q \in HeldRets :
                 (rets[q].resp = v.resp /\ rets[q].id = v.id) => rets[q].ret = v.ret

(* Two calls for an identifier two entries share, and a call for an    *)
(* identifier of the last entry only, all answered.                    *)
C4_Witness ==
    /\ \E r, q \in FoundRets :
          /\ r # q /\ rets[r].id = rets[q].id /\ rets[r].resp = rets[q].resp
          /\ Cardinality(Matches(basics[rets[r].resp].entries, rets[r].id)) >= 2
          /\ rets[r].ret.val.this_update.single = 0

(* ------------------------------------------------------------------ *)
(* Properties of the lifetimes                                         *)
(* ------------------------------------------------------------------ *)
RecordPtrs(rec) ==
    {rec.this_update, rec.next_update}
    \cup (IF rec.revocation_time = None THEN {} ELSE {rec.revocation_time.val})

(* C9: every held StatusRecord, and each of its time views, refers to a  *)
(* BasicResponse that has not been destroyed, and every BasicResponse    *)
(* handle basic() returned refers to a live object, also after the       *)
(* envelope it came from was destroyed.                                  *)
C9_RecordsNeverOutliveResponse ==
    /\ \A r \in HeldRets : basics[rets[r].resp].obj = "live"
    /\ \A r \in FoundRets :
          \A p \in RecordPtrs(rets[r].ret.val) :
              p.resp = rets[r].resp /\ basics[p.resp].obj = "live"
    /\ \A b \in BasicIds :
          (basics[b] # NoBasic /\ basics[b].held) => basics[b].obj = "live"

(* A record is held while another basic response was already destroyed  *)
(* and no envelope is left.                                             *)
C9_Witness ==
    /\ FoundRets # {}
    /\ LiveEnvs = {}
    /\ \E b \in BasicIds : basics[b] = FreedBasic

====
